---- MODULE Spec2Model ----
(***************************************************************************)
(* A model of the payment gateway facade of src/server.js: the middleware  *)
(* chain (CORS, express.json), the four payment handlers and the provider  *)
(* calls they suspend on.  Request data are JSON values, handled with the  *)
(* JavaScript semantics the handlers rely on (truthiness, ToNumber,        *)
(* ToPrimitive, strict equality, string concatenation).                    *)
(***************************************************************************)
EXTENDS Integers, Sequences, FiniteSets, TLC

(***************************************************************************)
(* JavaScript values.  Every value is a record [t, v]; a text is a         *)
(* sequence of symbols (characters, or whole words where the code never    *)
(* looks inside them).                                                     *)
(***************************************************************************)
\* F applied to the value of e, e being evaluated once
Bind(e, F(_)) == CHOOSE y \in { F(x) : x \in {e} } : TRUE

Undef == [t |-> "undefined", v |-> 0]
Null == [t |-> "null", v |-> 0]
Bool(b) == [t |-> "bool", v |-> b]
Num(n) == [t |-> "num", v |-> n]
Str(s) == [t |-> "str", v |-> s]
\* an object literal: the sequence of its <<key, value>> members, in order
Obj(members) == [t |-> "obj", v |-> members]

HasOwn(o, key) == o.t = "obj" /\ \E i \in 1..Len(o.v) : o.v[i][1] = key

\* o[key] on an object: the last member of that name, undefined when absent
Get(o, key) ==
  IF HasOwn(o, key)
    THEN LET i == CHOOSE j \in 1..Len(o.v) :
                    /\ o.v[j][1] = key
                    /\ \A k \in (j+1)..Len(o.v) : o.v[k][1] # key
         IN  o.v[i][2]
    ELSE Undef

\* reading a property of undefined or null raises a TypeError
CanRead(x) == x.t \notin {"undefined", "null"}

\* !x is false
Truthy(x) ==
  CASE x.t = "undefined" -> FALSE
    [] x.t = "null" -> FALSE
    [] x.t = "bool" -> x.v
    [] x.t = "num" -> x.v # 0
    [] x.t = "str" -> Len(x.v) > 0
    [] OTHER -> TRUE

\* ToPrimitive of an object parsed from JSON: the inherited valueOf returns the
\* object itself, and an own member named toString is never callable, so the
\* conversion raises a TypeError exactly when the object has one
PrimitiveThrows(x) == x.t = "obj" /\ HasOwn(x, "toString")

Digits == <<"0", "1", "2", "3", "4", "5", "6", "7", "8", "9">>

IsDigit(c) == \E d \in 1..10 : Digits[d] = c

DigitValue(c) == (CHOOSE d \in 1..10 : Digits[d] = c) - 1

RECURSIVE DigitsToNat(_)
DigitsToNat(s) ==
  IF Len(s) = 0 THEN 0
  ELSE 10 * DigitsToNat(SubSeq(s, 1, Len(s) - 1)) + DigitValue(s[Len(s)])

RECURSIVE NatToDigits(_)
NatToDigits(n) ==
  IF n < 10 THEN <<Digits[n + 1]>>
  ELSE NatToDigits(n \div 10) \o <<Digits[(n % 10) + 1]>>

\* a number or NaN
Number(n) == [nan |-> FALSE, n |-> n]
NaN == [nan |-> TRUE, n |-> 0]

\* ToNumber, for values whose ToPrimitive does not raise
ToNumber(x) ==
  CASE x.t = "undefined" -> NaN
    [] x.t = "null" -> Number(0)
    [] x.t = "bool" -> Number(IF x.v THEN 1 ELSE 0)
    [] x.t = "num" -> Number(x.v)
    [] x.t = "str" ->
         IF \A i \in 1..Len(x.v) : IsDigit(x.v[i])
           THEN Number(DigitsToNat(x.v))
           ELSE NaN
    [] OTHER -> NaN

\* x <= n, x < n, x > n against a number literal: false when x converts to NaN
LessEq(x, n) == ~ToNumber(x).nan /\ ToNumber(x).n <= n
Less(x, n) == ~ToNumber(x).nan /\ ToNumber(x).n < n
Greater(x, n) == ~ToNumber(x).nan /\ ToNumber(x).n > n

\* ToString, as string concatenation and template literals apply it
ToText(x) ==
  CASE x.t = "undefined" -> <<"undefined">>
    [] x.t = "null" -> <<"null">>
    [] x.t = "bool" -> IF x.v THEN <<"true">> ELSE <<"false">>
    [] x.t = "num" -> IF x.v < 0 THEN <<"-">> \o NatToDigits(-x.v) ELSE NatToDigits(x.v)
    [] x.t = "str" -> x.v
    [] OTHER -> <<"[object Object]">>

\* a === b
StrictEq(a, b) == \E x \in {a}, y \in {b} : x.t = y.t /\ x.t # "obj" /\ x.v = y.v

(***************************************************************************)
(* JSON texts.  A text is a sequence of tokens: punctuation, white space   *)
(* and whole string or number lexemes.  Lexemes lists, for every lexeme of *)
(* the model, the value JSON.parse reads from it; the first lexeme listed  *)
(* for a value is the one JSON.stringify writes.                           *)
(***************************************************************************)
Lexemes ==
  << <<"\"event\"", Str(<<"event">>)>>,
     <<"\"payload\"", Str(<<"payload">>)>>,
     <<"\"payment\"", Str(<<"payment">>)>>,
     <<"\"subscription\"", Str(<<"subscription">>)>>,
     <<"\"entity\"", Str(<<"entity">>)>>,
     <<"\"toString\"", Str(<<"toString">>)>>,
     <<"\"payment.captured\"", Str(<<"payment.captured">>)>>,
     <<"\"payment.failed\"", Str(<<"payment.failed">>)>>,
     <<"\"subscription.activated\"", Str(<<"subscription.activated">>)>>,
     <<"\"subscription.cancelled\"", Str(<<"subscription.cancelled">>)>>,
     <<"\"order.paid\"", Str(<<"order.paid">>)>>,
     <<"\"rzp.io/i\"", Str(<<"rzp.io/i">>)>>,
     <<"\"rzp.io\\/i\"", Str(<<"rzp.io/i">>)>>,
     <<"100", Num(100)>>,
     <<"100.0", Num(100)>>,
     <<"1e2", Num(100)>>,
     <<"true", Bool(TRUE)>>,
     <<"null", Null>> >>

IsLexeme(tok) == \E i \in 1..Len(Lexemes) : Lexemes[i][1] = tok

LexemeValue(tok) == Lexemes[CHOOSE i \in 1..Len(Lexemes) : Lexemes[i][1] = tok][2]

IsStringLexeme(tok) == IsLexeme(tok) /\ LexemeValue(tok).t = "str"

\* the lexeme JSON.stringify writes for a string, number, boolean or null
Canonical(val) ==
  Lexemes[CHOOSE i \in 1..Len(Lexemes) :
            /\ Lexemes[i][2] = val
            /\ \A j \in 1..(i-1) : Lexemes[j][2] # val][1]

IsSpace(tok) == tok = " "

RECURSIVE SkipSpace(_, _)
SkipSpace(toks, i) ==
  IF i <= Len(toks) /\ IsSpace(toks[i]) THEN SkipSpace(toks, i + 1) ELSE i

\* a member set on an object under construction: an existing key keeps its place
PutMember(members, key, val) ==
  IF \E i \in 1..Len(members) : members[i][1] = key
    THEN [i \in 1..Len(members) |->
            IF members[i][1] = key THEN <<key, val>> ELSE members[i]]
    ELSE Append(members, <<key, val>>)

ParseError == [ok |-> FALSE, val |-> Undef, next |-> 0]

RECURSIVE ParseValue(_, _)
RECURSIVE ParseMembers(_, _, _)
RECURSIVE ParseMore(_, _, _)
\* the value starting at token i (white space skipped) and the index after it
ParseValue(toks, i) ==
  Bind(SkipSpace(toks, i), LAMBDA j :
    IF j > Len(toks) THEN ParseError
    ELSE IF toks[j] = "{" THEN
           Bind(SkipSpace(toks, j + 1), LAMBDA k :
             IF k <= Len(toks) /\ toks[k] = "}"
               THEN [ok |-> TRUE, val |-> Obj(<<>>), next |-> k + 1]
               ELSE ParseMembers(toks, k, <<>>))
    ELSE IF IsLexeme(toks[j])
           THEN [ok |-> TRUE, val |-> LexemeValue(toks[j]), next |-> j + 1]
    ELSE ParseError)

\* after a member: the object's "}", or a "," and the members that follow
ParseMore(toks, e, members) ==
  IF e > Len(toks) THEN ParseError
  ELSE IF toks[e] = "}" THEN [ok |-> TRUE, val |-> Obj(members), next |-> e + 1]
  ELSE IF toks[e] = "," THEN ParseMembers(toks, e + 1, members)
  ELSE ParseError

\* the members of an object from token i on, up to and including its "}"
ParseMembers(toks, i, acc) ==
  Bind(SkipSpace(toks, i), LAMBDA k :
    IF k > Len(toks) \/ ~IsStringLexeme(toks[k]) THEN ParseError
    ELSE Bind(SkipSpace(toks, k + 1), LAMBDA c :
           IF c > Len(toks) \/ toks[c] # ":" THEN ParseError
           ELSE Bind(ParseValue(toks, c + 1), LAMBDA r :
                  IF ~r.ok THEN ParseError
                  ELSE Bind(PutMember(acc, LexemeValue(toks[k]).v[1], r.val), LAMBDA members :
                         Bind(SkipSpace(toks, r.next), LAMBDA e :
                           ParseMore(toks, e, members))))))

\* JSON.parse as express.json applies it (strict: the text must be an object):
\* [ok, val], ok false when the text is rejected
JsonParse(toks) ==
  Bind(ParseValue(toks, 1), LAMBDA r :
    IF r.ok /\ r.val.t = "obj" /\ SkipSpace(toks, r.next) > Len(toks)
      THEN [ok |-> TRUE, val |-> r.val]
      ELSE [ok |-> FALSE, val |-> Undef])

RECURSIVE JsonStringify(_)
RECURSIVE StringifyMembers(_, _)
\* JSON.stringify without an indent argument: no white space, canonical lexemes
JsonStringify(val) ==
  IF val.t = "obj"
    THEN <<"{">> \o StringifyMembers(val.v, 1) \o <<"}">>
    ELSE <<Canonical(val)>>

StringifyMembers(members, i) ==
  IF i > Len(members) THEN <<>>
  ELSE (IF i > 1 THEN <<",">> ELSE <<>>)
       \o <<Canonical(Str(<<members[i][1]>>)), ":">>
       \o JsonStringify(members[i][2])
       \o StringifyMembers(members, i + 1)

(***************************************************************************)
(* HMAC-SHA256 with a hex digest.  The digest is modelled as a keyed,      *)
(* deterministic 16-bit hash of the key and the message, written as four   *)
(* lower-case hexadecimal digits.                                          *)
(***************************************************************************)
Alphabet ==
  << "{", "}", ":", ",", " ", "|", "_", "-", "[object Object]", "undefined", "null",
     "true", "false",
     "0", "1", "2", "3", "4", "5", "6", "7", "8", "9",
     "a", "b", "c", "d", "e", "f", "k", "o", "p", "s", "w", "y" >>

SymbolCode(c) ==
  IF \E i \in 1..Len(Alphabet) : Alphabet[i] = c
    THEN CHOOSE i \in 1..Len(Alphabet) : Alphabet[i] = c
    ELSE Len(Alphabet) + (CHOOSE i \in 1..Len(Lexemes) : Lexemes[i][1] = c)

RECURSIVE Absorb(_, _)
Absorb(h, text) ==
  Bind(<<h, text>>, LAMBDA a :
    IF Len(a[2]) = 0 THEN a[1]
    ELSE Absorb((a[1] * 31 + SymbolCode(a[2][1])) % 65536, Tail(a[2])))

HexDigits == <<"0", "1", "2", "3", "4", "5", "6", "7", "8", "9", "a", "b", "c", "d", "e", "f">>

UpperHex == <<"0", "1", "2", "3", "4", "5", "6", "7", "8", "9", "A", "B", "C", "D", "E", "F">>

Hex(n) ==
  << HexDigits[((n \div 4096) % 16) + 1], HexDigits[((n \div 256) % 16) + 1],
     HexDigits[((n \div 16) % 16) + 1], HexDigits[(n % 16) + 1] >>

\* crypto.createHmac('sha256', key).update(message).digest('hex')
HmacHex(key, message) ==
  Bind(Absorb(Absorb(7, key) * 257 % 65536, message), LAMBDA n : Hex(n))

(***************************************************************************)
(* Configuration (src/config.js), fixed when the process starts.           *)
(***************************************************************************)
KeySecret == <<"k", "s">>
WebhookSecret == <<"w", "s">>
FrontendUrl == Str(<<"http://localhost:5173">>)

MinAmount == 100
MaxAmount == 1000000
ReceiptTail == 8

(***************************************************************************)
(* Responses.  The handlers answer with res.status(s).json(body); errors   *)
(* passed to next(err) by a middleware reach Express's default error       *)
(* handler, as server.js registers none of its own: it answers with the    *)
(* error's status (500 when it has none) and an HTML page.                 *)
(***************************************************************************)
Json(status, members) == [status |-> status, type |-> "json", body |-> Obj(members)]

DefaultErrorHandler(status) ==
  [status |-> status, type |-> "html", body |-> Str(<<"<pre>Error</pre>">>)]

Text(word) == Str(<<word>>)

Failure(status, message) ==
  Json(status, << <<"success", Bool(FALSE)>>, <<"message", Text(message)>> >>)

\* what a handler run does: the responses it sends, the provider calls it
\* starts (it then suspends on them), and whether it reached the webhook switch
Outcome(sent, calls, dispatched) ==
  [sent |-> sent, calls |-> calls, dispatched |-> dispatched]

Respond(res) == Outcome(<<res>>, <<>>, FALSE)

\* an Error raised by the runtime: it has a message and no member named error
TypeError == Obj(<< <<"message", Text("TypeError")>> >>)

(***************************************************************************)
(* CORS (corsOptions.origin) and express.json                              *)
(***************************************************************************)
AllowedOrigins ==
  << Text("http://localhost:5173"), Text("http://localhost:3000"),
     Text("https://examnest.vercel.app/"), FrontendUrl >>

\* corsOptions.origin: TRUE for callback(null, true), FALSE for callback(Error)
OriginAllowed(origin) ==
  \/ ~Truthy(origin)
  \/ \E i \in 1..Len(AllowedOrigins) : StrictEq(AllowedOrigins[i], origin)

\* express.json on a request: [ok, val], val being req.body.  A body given as
\* a value stands for any JSON text that parses to it; a request without a
\* body is passed on with an empty object
ExpressJson(q) ==
  CASE q.form = "text" -> JsonParse(q.toks)
    [] q.form = "value" -> [ok |-> TRUE, val |-> q.val]
    [] q.form = "none" -> [ok |-> TRUE, val |-> Obj(<<>>)]
    [] OTHER -> [ok |-> FALSE, val |-> Undef]

(***************************************************************************)
(* POST /api/create-order                                                  *)
(***************************************************************************)
LastSymbols(text, n) ==
  IF Len(text) <= n THEN text ELSE SubSeq(text, Len(text) - n + 1, Len(text))

\* a variant of the catch block that tests error.error alone, not its
\* description: C7 must tell it from the one below
CreateOrderCatchAnyError(error) ==
  LET e == Get(error, "error") IN
  IF Truthy(e)
    THEN Json(400, << <<"success", Bool(FALSE)>>,
                      <<"message", Str(<<"Payment Error: ">> \o ToText(Get(e, "description")))>>,
                      <<"errorCode", Get(e, "code")>> >>)
    ELSE Failure(500, "Failed to create order. Please try again.")

\* the catch block of create-order
CreateOrderCatch(error) ==
  LET e == Get(error, "error") IN
  IF Truthy(e) /\ Truthy(Get(e, "description"))
    THEN Json(400, << <<"success", Bool(FALSE)>>,
                      <<"message", Str(<<"Payment Error: ">> \o ToText(Get(e, "description")))>>,
                      <<"errorCode", Get(e, "code")>> >>)
    ELSE Failure(500, "Failed to create order. Please try again.")

\* the options object passed to razorpay.orders.create
OrderOptions(planId, userId, amount, currency, now) ==
  Obj(<< <<"amount", amount>>,
         <<"currency", currency>>,
         <<"receipt", Str(<<"order_">> \o LastSymbols(ToText(now), ReceiptTail)
                          \o <<"_">> \o LastSymbols(userId.v, ReceiptTail))>>,
         <<"notes", Obj(<< <<"planId", planId>>, <<"userId", userId>> >>)>> >>)

\* create-order up to its await (or its response, when it does not get there)
CreateOrderBegin(body, now) ==
  LET planId == Get(body, "planId")
      userId == Get(body, "userId")
      amount == Get(body, "amount")
      currency == IF Get(body, "currency").t = "undefined" THEN Text("INR")
                  ELSE Get(body, "currency")
  IN
  IF ~Truthy(planId) \/ ~Truthy(userId) \/ ~Truthy(amount)
    THEN Respond(Failure(400, "Missing required fields: planId, userId, and amount are required"))
  ELSE IF PrimitiveThrows(amount)
    THEN Respond(CreateOrderCatch(TypeError))
  ELSE IF LessEq(amount, 0)
    THEN Respond(Failure(400, "Amount must be greater than 0"))
  ELSE IF ~StrictEq(currency, Text("INR"))
    THEN Respond(Failure(400, "Only INR currency is supported"))
  ELSE IF Less(amount, MinAmount) \/ Greater(amount, MaxAmount)
    THEN Respond(Failure(400, "Amount must be between Rs 1 and Rs 10,000"))
  ELSE IF userId.t # "str"
    THEN Respond(CreateOrderCatch(TypeError))
  ELSE Outcome(<<>>,
               << [op |-> "orders.create",
                   args |-> OrderOptions(planId, userId, amount, currency, now)] >>,
               FALSE)

\* a variant without the try/catch around the await, where a rejection is
\* answered by nobody: C10 must tell it from the one below
CreateOrderEndUncaught(answer) ==
  IF answer.settled = "reject" \/ ~CanRead(answer.val) THEN Outcome(<<>>, <<>>, FALSE)
  ELSE Respond(Json(200, << <<"success", Bool(TRUE)>>,
                            <<"orderId", Get(answer.val, "id")>>,
                            <<"amount", Get(answer.val, "amount")>>,
                            <<"currency", Get(answer.val, "currency")>> >>))

\* create-order after its await: answer is [settled, val], the provider's
\* resolution ("resolve", the order) or rejection ("reject", the error)
CreateOrderEnd(answer) ==
  IF answer.settled = "reject" THEN Respond(CreateOrderCatch(answer.val))
  ELSE IF ~CanRead(answer.val) THEN Respond(CreateOrderCatch(TypeError))
  ELSE Respond(Json(200, << <<"success", Bool(TRUE)>>,
                            <<"orderId", Get(answer.val, "id")>>,
                            <<"amount", Get(answer.val, "amount")>>,
                            <<"currency", Get(answer.val, "currency")>> >>))

(***************************************************************************)
(* POST /api/verify-payment                                                *)
(***************************************************************************)
LowerHex(c) ==
  IF \E d \in 1..16 : UpperHex[d] = c
    THEN HexDigits[CHOOSE d \in 1..16 : UpperHex[d] = c]
    ELSE c

\* a variant that compares the signature without regard to letter case: C2
\* must tell it from the one below
VerifyPaymentAnyCase(body) ==
  LET paymentId == Get(body, "razorpay_payment_id")
      orderId == Get(body, "razorpay_order_id")
      signature == Get(body, "razorpay_signature")
  IN
  IF ~Truthy(paymentId) \/ ~Truthy(orderId) \/ ~Truthy(signature)
    THEN Respond(Failure(400, "Missing payment verification data"))
  ELSE IF PrimitiveThrows(orderId) \/ PrimitiveThrows(paymentId)
    THEN Respond(Failure(500, "Failed to verify payment"))
  ELSE LET expectedSignature ==
             Str(HmacHex(KeySecret, ToText(orderId) \o <<"|">> \o ToText(paymentId)))
           lowered == IF signature.t = "str"
                        THEN Str([i \in 1..Len(signature.v) |-> LowerHex(signature.v[i])])
                        ELSE signature
       IN  IF ~StrictEq(expectedSignature, lowered)
             THEN Respond(Failure(400, "Invalid payment signature"))
             ELSE Respond(Json(200, << <<"success", Bool(TRUE)>>,
                                       <<"message", Text("Payment verified successfully")>>,
                                       <<"paymentId", paymentId>>,
                                       <<"orderId", orderId>> >>))

VerifyPayment(body) ==
  LET paymentId == Get(body, "razorpay_payment_id")
      orderId == Get(body, "razorpay_order_id")
      signature == Get(body, "razorpay_signature")
  IN
  IF ~Truthy(paymentId) \/ ~Truthy(orderId) \/ ~Truthy(signature)
    THEN Respond(Failure(400, "Missing payment verification data"))
  ELSE IF PrimitiveThrows(orderId) \/ PrimitiveThrows(paymentId)
    THEN Respond(Failure(500, "Failed to verify payment"))
  ELSE LET expectedSignature ==
             Str(HmacHex(KeySecret, ToText(orderId) \o <<"|">> \o ToText(paymentId)))
       IN  IF ~StrictEq(expectedSignature, signature)
             THEN Respond(Failure(400, "Invalid payment signature"))
             ELSE Respond(Json(200, << <<"success", Bool(TRUE)>>,
                                       <<"message", Text("Payment verified successfully")>>,
                                       <<"paymentId", paymentId>>,
                                       <<"orderId", orderId>> >>))

(***************************************************************************)
(* GET /api/payment-status/:paymentId                                      *)
(***************************************************************************)
PaymentStatusBegin(paymentId) ==
  Outcome(<<>>, << [op |-> "payments.fetch", args |-> paymentId] >>, FALSE)

PaymentStatusEnd(answer) ==
  IF answer.settled = "reject" \/ ~CanRead(answer.val)
    THEN Respond(Failure(500, "Failed to fetch payment status"))
    ELSE Respond(Json(200,
           << <<"success", Bool(TRUE)>>,
              <<"payment", Obj(<< <<"id", Get(answer.val, "id")>>,
                                  <<"status", Get(answer.val, "status")>>,
                                  <<"amount", Get(answer.val, "amount")>>,
                                  <<"currency", Get(answer.val, "currency")>>,
                                  <<"method", Get(answer.val, "method")>>,
                                  <<"created_at", Get(answer.val, "created_at")>> >>)>> >>))

(***************************************************************************)
(* POST /api/webhook                                                       *)
(***************************************************************************)
\* a variant whose default case logs event.payload.payment too: C6 must tell
\* it from the one below
DispatchThrowsInDefault(event) ==
  LET payload == Get(event, "payload") IN
  IF StrictEq(Get(event, "event"), Text("subscription.activated"))
     \/ StrictEq(Get(event, "event"), Text("subscription.cancelled"))
    THEN ~CanRead(payload) \/ ~CanRead(Get(payload, "subscription"))
    ELSE ~CanRead(payload) \/ ~CanRead(Get(payload, "payment"))

\* the switch on event.event: TRUE when a case raises a TypeError
DispatchThrows(event) ==
  LET type == Get(event, "event")
      payload == Get(event, "payload")
  IN
  IF StrictEq(type, Text("payment.captured")) \/ StrictEq(type, Text("payment.failed"))
    THEN ~CanRead(payload) \/ ~CanRead(Get(payload, "payment"))
  ELSE IF StrictEq(type, Text("subscription.activated"))
          \/ StrictEq(type, Text("subscription.cancelled"))
    THEN ~CanRead(payload) \/ ~CanRead(Get(payload, "subscription"))
  ELSE FALSE

\* the signature the handler expects: the HMAC of the parsed body, serialized again
WebhookExpected(body) == Str(HmacHex(WebhookSecret, JsonStringify(body)))

Webhook(signature, body) ==
  IF ~StrictEq(signature, WebhookExpected(body))
    THEN Respond(Json(400, << <<"message", Text("Invalid webhook signature")>> >>))
  ELSE IF DispatchThrows(body)
    THEN Outcome(<<Json(500, << <<"message", Text("Webhook processing failed")>> >>)>>,
                 <<>>, TRUE)
  ELSE Outcome(<<Json(200, << <<"received", Bool(TRUE)>> >>)>>, <<>>, TRUE)

(***************************************************************************)
(* GET /api/health                                                         *)
(***************************************************************************)
Health(now) ==
  Respond(Json(200, << <<"status", Text("OK")>>, <<"timestamp", now>> >>))

(***************************************************************************)
(* Requests: [ep, origin, form, toks, val, header, param, now].  ep is the *)
(* route, origin the Origin header, (form, toks, val) the body as sent,    *)
(* header the x-razorpay-signature header, param the :paymentId path       *)
(* parameter and now the value Date.now() returns while it is handled.     *)
(***************************************************************************)
Request(ep, origin, form, toks, val, header, param) ==
  [ep |-> ep, origin |-> origin, form |-> form, toks |-> toks, val |-> val,
   header |-> header, param |-> param, now |-> Num(1234567890)]

NoRequest == Request("none", Undef, "value", <<>>, Undef, Undef, Undef)

\* a request with a body given as a value, from an origin
Post(ep, origin, val) == Request(ep, origin, "value", <<>>, val, Undef, Undef)

\* a request whose body is not JSON
Malformed(ep) == Request(ep, Undef, "malformed", <<>>, Undef, Undef, Undef)

\* an object of the members whose value is not undefined (JSON has no undefined)
RECURSIVE Present(_)
Present(members) ==
  IF Len(members) = 0 THEN <<>>
  ELSE (IF members[1][2].t = "undefined" THEN <<>> ELSE <<members[1]>>)
       \o Present(Tail(members))

EvilOrigin == Text("http://evil.example")

(***************************************************************************)
(* The provider's answers to a call: [settled, val].                       *)
(***************************************************************************)
Resolve(val) == [settled |-> "resolve", val |-> val]
Reject(val) == [settled |-> "reject", val |-> val]
NoAnswer == [settled |-> "none", val |-> Undef]

ProviderError(members) == Obj(<< <<"statusCode", Num(400)>>, <<"error", Obj(members)>> >>)

Rejections ==
  { Reject(ProviderError(<< <<"code", Text("BAD_REQUEST_ERROR")>>,
                            <<"description", Text("The amount must be atleast INR 1.00")>> >>)),
    Reject(ProviderError(<< <<"code", Text("SERVER_ERROR")>>,
                            <<"description", Str(<<>>)>> >>)),
    Reject(ProviderError(<< <<"code", Text("SERVER_ERROR")>> >>)),
    Reject(TypeError) }

OrderAnswers(options) ==
  { Resolve(Obj(<< <<"id", Text("order_A")>>,
                   <<"amount", Get(options, "amount")>>,
                   <<"currency", Get(options, "currency")>> >>)),
    Resolve(Obj(<< <<"id", Text("order_B")>>,
                   <<"amount", Num(100)>>,
                   <<"currency", Text("INR")>> >>)),
    Resolve(Undef) } \cup Rejections

PaymentAnswers(paymentId) ==
  { Resolve(Obj(<< <<"id", paymentId>>, <<"status", Text("captured")>>,
                   <<"amount", Num(50000)>>, <<"currency", Text("INR")>>,
                   <<"method", Text("upi")>>, <<"created_at", Num(1234567)>> >>)),
    Resolve(Undef) } \cup Rejections

(***************************************************************************)
(* The requests the model draws from.                                      *)
(***************************************************************************)
UserId == Str(<<"u", "1", "2", "3", "4", "5", "6", "7", "8", "9", "0">>)

NotConvertible == Obj(<< <<"toString", Num(1)>> >>)

PlanIds == {Undef, Str(<<"p", "1">>)}
UserIds == {Undef, UserId, Num(12345)}
Amounts ==
  { Undef, Null, Bool(TRUE), Num(-5), Num(0), Num(50), Num(99), Num(100), Num(50000),
    Num(1000000), Num(1000001), Str(<<"a", "b", "c">>), Str(<<"5", "0">>),
    Str(<<"5", "0", "0">>), Obj(<<>>), NotConvertible }
Currencies == {Undef, Text("INR"), Text("USD"), Text("inr"), Null}

OrderBody(planId, userId, amount, currency) ==
  Obj(Present(<< <<"planId", planId>>, <<"userId", userId>>,
                 <<"amount", amount>>, <<"currency", currency>> >>))

CreateRequests ==
  { Post("create-order", Undef, OrderBody(p, u, a, c)) :
      p \in PlanIds, u \in UserIds, a \in Amounts, c \in Currencies }
  \cup { Post("create-order", o, OrderBody(Str(<<"p", "1">>), UserId, Num(50000), Undef)) :
           o \in {FrontendUrl, Text("https://examnest.vercel.app"), EvilOrigin} }
  \cup { Malformed("create-order") }

\* the texts that differ from a digest in at most one symbol: another hex
\* digit, or the same digit in upper case
Upper(c) == UpperHex[CHOOSE d \in 1..16 : HexDigits[d] = c]

Mutations(digest) ==
  { [digest EXCEPT ![i] = HexDigits[d]] : i \in 1..Len(digest), d \in 1..16 }
  \cup { [digest EXCEPT ![i] = Upper(digest[i])] : i \in 1..Len(digest) }

\* the signatures tried against a message: every text one symbol away from its
\* digest (the digest itself among them), its digest under the other secret, a
\* shorter and a longer text, and values that are not texts
Signatures(message) ==
  LET d == HmacHex(KeySecret, message)
      w == HmacHex(WebhookSecret, message)
  IN  { Str(m) : m \in Mutations(d) \cup {w} }
      \cup { Str(SubSeq(d, 1, 3)), Str(d \o <<"0">>), Str(<<>>), Undef, Null, Num(1), Obj(<<>>) }

PaymentIds == {Undef, Str(<<>>), Str(<<"p", "a", "y", "_", "1">>), Num(0), Num(7), NotConvertible}
OrderIds == {Undef, Str(<<"o", "_", "1">>), Str(<<"o", "_", "2">>), Obj(<<>>), NotConvertible}

VerifyBody(paymentId, orderId, signature) ==
  Obj(Present(<< <<"razorpay_payment_id", paymentId>>,
                 <<"razorpay_order_id", orderId>>,
                 <<"razorpay_signature", signature>>,
                 <<"planId", Str(<<"p", "1">>)>>, <<"userId", UserId>> >>))

\* the message a verification signs, when its parts convert to text
VerifyMessage(paymentId, orderId) ==
  IF PrimitiveThrows(paymentId) \/ PrimitiveThrows(orderId) THEN <<"|">>
  ELSE ToText(orderId) \o <<"|">> \o ToText(paymentId)

VerifyRequests ==
  { Post("verify-payment", Undef, VerifyBody(b[1], b[2], b[3])) :
      b \in UNION { { <<p, o, g>> : g \in Signatures(VerifyMessage(p, o)) } :
                      <<p, o>> \in PaymentIds \X OrderIds } }
  \cup { Post("verify-payment", EvilOrigin, VerifyBody(Num(7), Str(<<"o", "_", "1">>), Undef)),
         Malformed("verify-payment") }

\* webhook bodies as the provider sends them: token texts
WebhookTexts ==
  { <<"{", "\"event\"", ":", "\"order.paid\"", "}">>,
    <<"{", "\"event\"", ":", " ", "\"order.paid\"", "}">>,
    <<"{", "\"event\"", ":", "\"order.paid\"", ",", "\"payload\"", ":", "\"rzp.io\\/i\"", "}">>,
    <<"{", "\"event\"", ":", "\"order.paid\"", ",", "\"payload\"", ":", "100.0", "}">>,
    <<"{", "\"payload\"", ":", "{", "}", "}">>,
    <<"{", "\"event\"", ":", "100", "}">>,
    <<"{", "\"event\"", ":", "\"payment.captured\"", ",", "\"payload\"", ":", "{",
      "\"payment\"", ":", "{", "\"entity\"", ":", "{", "}", "}", "}", "}">>,
    <<"{", "\"event\"", ":", "\"payment.captured\"", "}">>,
    <<"{", "\"event\"", ":", "\"payment.failed\"", ",", "\"payload\"", ":", "{", "}", "}">>,
    <<"{", "\"event\"", ":", "\"payment.failed\"", ",", "\"payload\"", ":", "{",
      "\"payment\"", ":", "true", "}", "}">>,
    <<"{", "\"event\"", ":", "\"subscription.activated\"", ",", "\"payload\"", ":", "{",
      "\"subscription\"", ":", "{", "\"entity\"", ":", "100", "}", "}", "}">>,
    <<"{", "\"event\"", ":", "\"subscription.activated\"", ",", "\"payload\"", ":", "null", "}">>,
    <<"{", "\"event\"", ":", "\"subscription.cancelled\"", ",", "\"payload\"", ":", "{",
      "\"payment\"", ":", "{", "}", "}", "}">>,
    <<"{", "\"event\"", ":", "\"subscription.cancelled\"", ",", " ", "\"payload\"", ":", "{",
      "\"subscription\"", ":", "{", "}", "}", "}">>,
    <<"{", "\"event\"", ":">> }

\* the text the handler signs for a body, the body's own text when it does not parse
Reserialized(toks) ==
  IF JsonParse(toks).ok THEN JsonStringify(JsonParse(toks).val) ELSE toks

WebhookRequest(origin, toks, header) ==
  Request("webhook", origin, "text", toks, Undef, header, Undef)

WebhookRequests ==
  { WebhookRequest(Undef, b[1], b[2]) :
      b \in UNION { { <<t, g>> : g \in Signatures(t) \cup Signatures(Reserialized(t)) } :
                      t \in WebhookTexts } }
  \cup { WebhookRequest(EvilOrigin, <<"{", "}">>, Undef) }

Get_(ep, param) == Request(ep, Undef, "none", <<>>, Undef, Undef, param)

\* a few requests of every kind, for the runs that interleave them
MixedRequests ==
  { Post("create-order", Undef, OrderBody(Str(<<"p", "1">>), UserId, Num(50000), Text("INR"))),
    Post("create-order", Undef, OrderBody(Str(<<"p", "1">>), UserId, Num(50), Undef)),
    Post("create-order", EvilOrigin, OrderBody(Str(<<"p", "1">>), UserId, Num(100), Undef)),
    Malformed("create-order"),
    Post("verify-payment", Undef,
         VerifyBody(Str(<<"p", "a", "y", "_", "1">>), Str(<<"o", "_", "1">>),
                    Str(HmacHex(KeySecret, <<"o", "_", "1", "|", "p", "a", "y", "_", "1">>)))),
    Post("verify-payment", Undef,
         VerifyBody(Str(<<"p", "a", "y", "_", "1">>), Str(<<"o", "_", "1">>), Str(<<"0">>))),
    WebhookRequest(Undef, <<"{", "\"event\"", ":", "\"order.paid\"", "}">>,
                   Str(HmacHex(WebhookSecret, <<"{", "\"event\"", ":", "\"order.paid\"", "}">>))),
    WebhookRequest(Undef, <<"{", "\"event\"", ":", "\"payment.captured\"", "}">>,
                   Str(HmacHex(WebhookSecret, <<"{", "\"event\"", ":", "\"payment.captured\"", "}">>))),
    WebhookRequest(Undef, <<"{", "\"event\"", ":", "\"order.paid\"", "}">>, Undef),
    Get_("payment-status", Str(<<"p", "a", "y", "_", "1">>)),
    Get_("health", Undef) }

(***************************************************************************)
(* The server.  Every request in flight has a slot: where it is in the     *)
(* middleware chain or its handler (pc), the request, req.body once        *)
(* parsed, the provider calls it made, the provider's answer it was        *)
(* resumed with, the responses sent for it and whether it reached the      *)
(* webhook switch.                                                         *)
(***************************************************************************)
MaxRequests == 2

Slots == 1..MaxRequests

VARIABLES pc, req, body, calls, answer, resp, dispatched

vars == <<pc, req, body, calls, answer, resp, dispatched>>

Init ==
  /\ pc = [r \in Slots |-> "idle"]
  /\ req = [r \in Slots |-> NoRequest]
  /\ body = [r \in Slots |-> Undef]
  /\ calls = [r \in Slots |-> <<>>]
  /\ answer = [r \in Slots |-> NoAnswer]
  /\ resp = [r \in Slots |-> <<>>]
  /\ dispatched = [r \in Slots |-> FALSE]

\* a request arrives
Receive(r, q) ==
  /\ pc[r] = "idle"
  /\ pc' = [pc EXCEPT ![r] = "cors"]
  /\ req' = [req EXCEPT ![r] = q]
  /\ UNCHANGED <<body, calls, answer, resp, dispatched>>

\* app.use(cors(corsOptions))
CorsMiddleware(r) ==
  /\ pc[r] = "cors"
  /\ IF OriginAllowed(req[r].origin)
       THEN /\ pc' = [pc EXCEPT ![r] = "json"]
            /\ UNCHANGED resp
       ELSE /\ pc' = [pc EXCEPT ![r] = "done"]
            /\ resp' = [resp EXCEPT ![r] = Append(@, DefaultErrorHandler(500))]
  /\ UNCHANGED <<req, body, calls, answer, dispatched>>

\* app.use(express.json(...)), then the header middleware, up to the route
JsonMiddleware(r) ==
  /\ pc[r] = "json"
  /\ \E parsed \in {ExpressJson(req[r])} :
       IF parsed.ok
         THEN /\ pc' = [pc EXCEPT ![r] = "route"]
              /\ body' = [body EXCEPT ![r] = parsed.val]
              /\ UNCHANGED resp
         ELSE /\ pc' = [pc EXCEPT ![r] = "done"]
              /\ resp' = [resp EXCEPT ![r] = Append(@, DefaultErrorHandler(400))]
              /\ UNCHANGED body
  /\ UNCHANGED <<req, calls, answer, dispatched>>

\* a variant that keeps res in a variable of the module, so that a response
\* goes to a request still awaiting the provider when there is another one:
\* C9 must tell it from the one below
RunSharedRes(r, o) ==
  LET to == IF \E s \in Slots \ {r} : pc[s] = "await"
              THEN CHOOSE s \in Slots \ {r} : pc[s] = "await"
              ELSE r
  IN  /\ resp' = [resp EXCEPT ![to] = @ \o o.sent]
      /\ calls' = [calls EXCEPT ![r] = @ \o o.calls]
      /\ dispatched' = [dispatched EXCEPT ![r] = @ \/ o.dispatched]
      /\ pc' = [pc EXCEPT ![r] = IF Len(o.calls) > 0 THEN "await" ELSE "done"]
      /\ UNCHANGED <<req, body>>

\* a handler runs from its start, or from its await, to its next await or its end
Run(r, o) ==
  /\ resp' = [resp EXCEPT ![r] = @ \o o.sent]
  /\ calls' = [calls EXCEPT ![r] = @ \o o.calls]
  /\ dispatched' = [dispatched EXCEPT ![r] = @ \/ o.dispatched]
  /\ pc' = [pc EXCEPT ![r] = IF Len(o.calls) > 0 THEN "await" ELSE "done"]
  /\ UNCHANGED <<req, body>>

Handle(r, ep, outcome) ==
  /\ pc[r] = "route"
  /\ req[r].ep = ep
  /\ \E o \in {outcome} : Run(r, o)
  /\ UNCHANGED answer

\* the provider settles the call the handler awaits, and the handler resumes
Settle(r, ep, a, outcome) ==
  /\ pc[r] = "await"
  /\ req[r].ep = ep
  /\ answer' = [answer EXCEPT ![r] = a]
  /\ \E o \in {outcome} : Run(r, o)

CreateOrderHandler(r) == Handle(r, "create-order", CreateOrderBegin(body[r], req[r].now))

CreateOrderResumed(r) ==
  /\ pc[r] = "await"
  /\ \E a \in OrderAnswers(calls[r][Len(calls[r])].args) :
       Settle(r, "create-order", a, CreateOrderEnd(a))

VerifyPaymentHandler(r) == Handle(r, "verify-payment", VerifyPayment(body[r]))

PaymentStatusHandler(r) == Handle(r, "payment-status", PaymentStatusBegin(req[r].param))

PaymentStatusResumed(r) ==
  /\ pc[r] = "await"
  /\ \E a \in PaymentAnswers(req[r].param) :
       Settle(r, "payment-status", a, PaymentStatusEnd(a))

WebhookHandler(r) == Handle(r, "webhook", Webhook(req[r].header, body[r]))

HealthHandler(r) == Handle(r, "health", Health(req[r].now))

\* what the server does with the request in slot r once it has arrived
Step(r) ==
  \/ CorsMiddleware(r)
  \/ JsonMiddleware(r)
  \/ CreateOrderHandler(r)
  \/ CreateOrderResumed(r)
  \/ VerifyPaymentHandler(r)
  \/ PaymentStatusHandler(r)
  \/ PaymentStatusResumed(r)
  \/ WebhookHandler(r)
  \/ HealthHandler(r)

\* any requests, interleaved
Next ==
  \/ \E r \in Slots, q \in MixedRequests : Receive(r, q)
  \/ \E r \in Slots : Step(r)

Spec == Init /\ [][Next]_vars

\* every started step is eventually taken and every provider call settles
LiveSpec == Spec /\ \A r \in Slots : WF_vars(Step(r))

\* one create-order request at a time
NextCreate ==
  \/ \E q \in CreateRequests : Receive(1, q)
  \/ CorsMiddleware(1)
  \/ JsonMiddleware(1)
  \/ CreateOrderHandler(1)
  \/ CreateOrderResumed(1)

SpecCreate == Init /\ [][NextCreate]_vars

\* one verify-payment request at a time
NextVerify ==
  \/ \E q \in VerifyRequests : Receive(1, q)
  \/ CorsMiddleware(1)
  \/ JsonMiddleware(1)
  \/ VerifyPaymentHandler(1)

SpecVerify == Init /\ [][NextVerify]_vars

\* one webhook request at a time
NextWebhook ==
  \/ \E q \in WebhookRequests : Receive(1, q)
  \/ CorsMiddleware(1)
  \/ JsonMiddleware(1)
  \/ WebhookHandler(1)

SpecWebhook == Init /\ [][NextWebhook]_vars

(***************************************************************************)
(* Properties                                                              *)
(***************************************************************************)
\* the request in slot r got past the middleware and its handler ran
Handled(r, ep) == req[r].ep = ep /\ body[r].t = "obj" /\ pc[r] \in {"await", "done"}

Answered(r) == pc[r] = "done"

IsFailure(res, status) ==
  /\ res.status = status
  /\ res.type = "json"
  /\ Get(res.body, "success") = Bool(FALSE)

\* an amount that is, as a number, within the limits
AmountInRange(a) ==
  /\ a.t \in {"num", "str"}
  /\ ~ToNumber(a).nan
  /\ ToNumber(a).n >= MinAmount
  /\ ToNumber(a).n <= MaxAmount

\* C1: the provider has only ever been asked to create orders with an amount
\* in [100, 1000000] (a request with any other amount never reaches it).
C1_ProviderAmountsInRange ==
  \A r \in Slots : \A i \in 1..Len(calls[r]) :
    calls[r][i].op = "orders.create" => AmountInRange(Get(calls[r][i].args, "amount"))

\* C4: a create-order request whose currency is present and is not "INR" is
\* answered 400 without a provider call, whatever its other fields.
C4_OtherCurrencyRejected ==
  \A r \in Slots :
    ( /\ Handled(r, "create-order")
      /\ HasOwn(body[r], "currency")
      /\ ~StrictEq(Get(body[r], "currency"), Text("INR")) )
    => /\ calls[r] = <<>>
       /\ Len(resp[r]) = 1
       /\ IsFailure(resp[r][1], 400)

\* the request body passes validation as the claim C5 words it
PassesValidation(b) ==
  /\ Truthy(Get(b, "planId"))
  /\ Truthy(Get(b, "userId"))
  /\ Get(b, "amount").t = "num"
  /\ AmountInRange(Get(b, "amount"))
  /\ (HasOwn(b, "currency") => StrictEq(Get(b, "currency"), Text("INR")))

\* C5: a create-order request that passes validation makes exactly one
\* orders.create call, with its amount, its currency (INR when omitted) and
\* planId/userId as notes; when the provider returns an order the response is
\* 200 {success:true, orderId, amount, currency} of that order.
C5_ValidRequestCreatesOrder ==
  \A r \in Slots :
    (Handled(r, "create-order") /\ PassesValidation(body[r]))
    => /\ Len(calls[r]) = 1
       /\ calls[r][1].op = "orders.create"
       /\ Get(calls[r][1].args, "amount") = Get(body[r], "amount")
       /\ Get(calls[r][1].args, "currency") = Text("INR")
       /\ Get(calls[r][1].args, "notes")
            = Obj(<< <<"planId", Get(body[r], "planId")>>,
                     <<"userId", Get(body[r], "userId")>> >>)
       /\ (Answered(r) /\ answer[r].settled = "resolve" /\ CanRead(answer[r].val))
          => resp[r] = << Json(200, << <<"success", Bool(TRUE)>>,
                                       <<"orderId", Get(answer[r].val, "id")>>,
                                       <<"amount", Get(answer[r].val, "amount")>>,
                                       <<"currency", Get(answer[r].val, "currency")>> >>) >>

GenericOrderFailure == Failure(500, "Failed to create order. Please try again.")

\* C7: in create-order, a provider rejection that carries an error description
\* (a non-empty one) is answered 400 with success:false, a message holding that
\* description and the provider's code as errorCode; every other failure of the
\* handler (a rejection without description, an exception raised in the
\* handler before or after the await) is answered with the fixed 500 response.
C7_CreateOrderFailures ==
  \A r \in Slots :
    (Handled(r, "create-order") /\ Answered(r))
    => LET a == answer[r]
           e == Get(a.val, "error")
           description == Get(e, "description")
           b == body[r]
       IN  /\ (a.settled = "reject" /\ Truthy(description))
              => resp[r] = << Json(400, << <<"success", Bool(FALSE)>>,
                                           <<"message", Str(<<"Payment Error: ">> \o description.v)>>,
                                           <<"errorCode", Get(e, "code")>> >>) >>
           /\ (a.settled = "reject" /\ ~Truthy(description))
              => resp[r] = <<GenericOrderFailure>>
           /\ (a.settled = "resolve" /\ ~CanRead(a.val))
              => resp[r] = <<GenericOrderFailure>>
           /\ ( /\ a.settled = "none"
                /\ Truthy(Get(b, "planId")) /\ Truthy(Get(b, "userId"))
                /\ Truthy(Get(b, "amount"))
                /\ \/ PrimitiveThrows(Get(b, "amount"))
                   \/ PassesValidation(b) /\ Get(b, "userId").t # "str" )
              => resp[r] = <<GenericOrderFailure>>
           /\ (\A i \in 1..Len(resp[r]) :
                 resp[r][i].status = 500 => resp[r][i] = GenericOrderFailure)

\* C7's case: a rejection with a description has been answered 400
C7_Witness ==
  \E r \in Slots :
    /\ Handled(r, "create-order") /\ Answered(r)
    /\ answer[r].settled = "reject"
    /\ Truthy(Get(Get(answer[r].val, "error"), "description"))
    /\ Len(resp[r]) = 1 /\ resp[r][1].status = 400

\* the conversions the verification message needs do not raise
Convertible(b) ==
  /\ ~PrimitiveThrows(Get(b, "razorpay_order_id"))
  /\ ~PrimitiveThrows(Get(b, "razorpay_payment_id"))

\* hex(HMAC-SHA256(keySecret, razorpay_order_id + "|" + razorpay_payment_id))
VerifyDigest(b) ==
  Str(HmacHex(KeySecret, ToText(Get(b, "razorpay_order_id")) \o <<"|">>
                         \o ToText(Get(b, "razorpay_payment_id"))))

VerifySuccess(b) ==
  Json(200, << <<"success", Bool(TRUE)>>,
               <<"message", Text("Payment verified successfully")>>,
               <<"paymentId", Get(b, "razorpay_payment_id")>>,
               <<"orderId", Get(b, "razorpay_order_id")>> >>)

\* the verification result the claim C2 states, for a request body b answered with res
SignatureDecides(b, res) ==
  /\ (res = <<VerifySuccess(b)>>) <=> StrictEq(Get(b, "razorpay_signature"), VerifyDigest(b))
  /\ ~StrictEq(Get(b, "razorpay_signature"), VerifyDigest(b))
     => res = <<Failure(400, "Invalid payment signature")>>

AllPresent(b) ==
  /\ HasOwn(b, "razorpay_payment_id")
  /\ HasOwn(b, "razorpay_order_id")
  /\ HasOwn(b, "razorpay_signature")

AllTruthy(b) ==
  /\ Truthy(Get(b, "razorpay_payment_id"))
  /\ Truthy(Get(b, "razorpay_order_id"))
  /\ Truthy(Get(b, "razorpay_signature"))

\* C2 as stated: whenever the three fields are present, the response is the
\* success response iff the signature equals the digest, and 400 'Invalid
\* payment signature' for any other signature.
C2_Original ==
  \A r \in Slots :
    (Handled(r, "verify-payment") /\ AllPresent(body[r]) /\ Convertible(body[r]))
    => SignatureDecides(body[r], resp[r])

\* C2, amended: whenever the three fields are present and truthy (not "", 0,
\* false or null) and the two identifiers convert to text, the response is the
\* success response iff the signature equals the digest, and 400 'Invalid
\* payment signature' for any other signature; a request with one of the three
\* absent or falsy is answered 400 'Missing payment verification data', and one
\* whose identifiers do not convert to text 500 'Failed to verify payment'.
C2_Amended ==
  \A r \in Slots :
    Handled(r, "verify-payment")
    => /\ (AllTruthy(body[r]) /\ Convertible(body[r]))
          => SignatureDecides(body[r], resp[r])
       /\ ~AllTruthy(body[r])
          => resp[r] = <<Failure(400, "Missing payment verification data")>>
       /\ (AllTruthy(body[r]) /\ ~Convertible(body[r]))
          => resp[r] = <<Failure(500, "Failed to verify payment")>>

\* C2's case: a request signed with the digest has been answered with success
C2_Witness ==
  \E r \in Slots :
    /\ Handled(r, "verify-payment")
    /\ AllTruthy(body[r]) /\ Convertible(body[r])
    /\ StrictEq(Get(body[r], "razorpay_signature"), VerifyDigest(body[r]))
    /\ resp[r] = <<VerifySuccess(body[r])>>

\* C3: a webhook is dispatched only if its signature header equals the HMAC of
\* the raw body as sent; a request whose header does not equal it is answered
\* 400 without dispatch, and one whose header equals it is not answered 400.
C3_RawBodySignature ==
  \A r \in Slots :
    Handled(r, "webhook")
    => IF StrictEq(req[r].header, Str(HmacHex(WebhookSecret, req[r].toks)))
         THEN \A i \in 1..Len(resp[r]) : resp[r][i].status # 400
         ELSE /\ ~dispatched[r]
              /\ resp[r] = << Json(400, << <<"message", Text("Invalid webhook signature")>> >>) >>

Received == Json(200, << <<"received", Bool(TRUE)>> >>)

KnownEvents ==
  { Text("payment.captured"), Text("payment.failed"),
    Text("subscription.activated"), Text("subscription.cancelled") }

IsKnownEvent(type) == \E k \in KnownEvents : StrictEq(type, k)

\* the entity a case of the switch logs can be read
EntityReadable(event) ==
  LET member == IF \/ StrictEq(Get(event, "event"), Text("payment.captured"))
                     \/ StrictEq(Get(event, "event"), Text("payment.failed"))
                  THEN "payment" ELSE "subscription"
  IN  CanRead(Get(event, "payload")) /\ CanRead(Get(Get(event, "payload"), member))

\* C6: a webhook whose signature check passes and whose dispatch does not raise
\* is answered 200 {received:true}; with any event type other than the four
\* handled ones (an absent one too) it is always answered so, never 400 or 500.
C6_VerifiedWebhookAccepted ==
  \A r \in Slots :
    (Handled(r, "webhook") /\ StrictEq(req[r].header, WebhookExpected(body[r])))
    => /\ dispatched[r]
       /\ ~IsKnownEvent(Get(body[r], "event")) => resp[r] = <<Received>>
       /\ (IsKnownEvent(Get(body[r], "event")) /\ EntityReadable(body[r]))
          => resp[r] = <<Received>>

\* C6's case: a verified webhook without an event type has been accepted
C6_Witness ==
  \E r \in Slots :
    /\ Handled(r, "webhook")
    /\ StrictEq(req[r].header, WebhookExpected(body[r]))
    /\ ~HasOwn(body[r], "event")
    /\ resp[r] = <<Received>>

\* C8: every failure response (status 4xx or 5xx) of every endpoint is JSON
\* with success:false, or on the webhook path JSON with only a message.
C8_FailuresAreJson ==
  \A r \in Slots : \A i \in 1..Len(resp[r]) :
    resp[r][i].status >= 400
    => /\ resp[r][i].type = "json"
       /\ IF req[r].ep = "webhook"
            THEN Len(resp[r][i].body.v) = 1 /\ HasOwn(resp[r][i].body, "message")
            ELSE Get(resp[r][i].body, "success") = Bool(FALSE)

\* the handler of a request, from its start to its first await or its end
Begin(q, b) ==
  CASE q.ep = "create-order" -> CreateOrderBegin(b, q.now)
    [] q.ep = "verify-payment" -> VerifyPayment(b)
    [] q.ep = "payment-status" -> PaymentStatusBegin(q.param)
    [] q.ep = "webhook" -> Webhook(q.header, b)
    [] OTHER -> Health(q.now)

\* what the server does with request q handled alone, the provider answering
\* a (no answer yet: up to the await)
Alone(q, a) ==
  IF ~OriginAllowed(q.origin)
    THEN Outcome(<<DefaultErrorHandler(500)>>, <<>>, FALSE)
  ELSE IF ~ExpressJson(q).ok
    THEN Outcome(<<DefaultErrorHandler(400)>>, <<>>, FALSE)
  ELSE LET first == Begin(q, ExpressJson(q).val)
           rest == IF q.ep = "create-order" THEN CreateOrderEnd(a) ELSE PaymentStatusEnd(a)
       IN  IF first.calls = <<>> \/ a.settled = "none" THEN first
           ELSE Outcome(first.sent \o rest.sent, first.calls, first.dispatched)

\* slot s is left as it is by a step
Untouched(s) ==
  /\ pc'[s] = pc[s] /\ req'[s] = req[s] /\ body'[s] = body[s] /\ calls'[s] = calls[s]
  /\ answer'[s] = answer[s] /\ resp'[s] = resp[s] /\ dispatched'[s] = dispatched[s]

\* C9: requests are independent under any interleaving: the responses and the
\* provider calls of every request that reached its await or its end are those
\* of the same request handled alone with the same provider answer, and every
\* step reads and writes the state of one request only.
C9_Independent ==
  /\ [](\A r \in Slots :
          pc[r] \in {"await", "done"}
          => Outcome(resp[r], calls[r], dispatched[r]) = Alone(req[r], answer[r]))
  /\ [][\E r \in Slots : \A s \in Slots \ {r} : Untouched(s)]_vars

\* C9's case: a verify-payment has been answered with success while a
\* create-order that arrived in another slot still awaits the provider
C9_Witness ==
  \E r, s \in Slots :
    /\ req[r].ep = "create-order" /\ pc[r] = "await"
    /\ req[s].ep = "verify-payment" /\ Answered(s)
    /\ resp[s] = <<VerifySuccess(body[s])>>

\* C10: every request is answered exactly once: at most one response is ever
\* sent for it, a request that is done has one, and with every provider call
\* settling a request that arrived is eventually answered; verify-payment and
\* webhook requests make no provider call and the others at most one.
C10_AnsweredOnce ==
  /\ [](\A r \in Slots :
          /\ Len(resp[r]) <= 1
          /\ Answered(r) => Len(resp[r]) = 1
          /\ Len(calls[r]) <= 1
          /\ req[r].ep \in {"verify-payment", "webhook"} => calls[r] = <<>>)
  /\ \A r \in Slots : (pc[r] # "idle") ~> (Len(resp[r]) = 1)

\* C10's case: a request has been answered after its provider call was rejected
C10_Witness ==
  \E r \in Slots :
    /\ Answered(r) /\ Len(calls[r]) = 1 /\ answer[r].settled = "reject"
    /\ Len(resp[r]) = 1

====
